---- MODULE Spec2Model ----
(***************************************************************************)
(* Remote headless-browser service (backend/routes/browser.py).            *)
(*                                                                         *)
(* The program is a set of asyncio coroutines multiplexed on one event     *)
(* loop: the code between two awaits that really suspend runs atomically,  *)
(* so every action below is one such segment of a handler.  An engine      *)
(* call `await X()` is issued at the end of one segment; the action that   *)
(* models its completion applies the engine's effect and runs the          *)
(* handler's next segment.  `await session_manager.get_session(..)` never  *)
(* suspends (the coroutine has no await inside), so it is part of the      *)
(* segment that calls it.                                                  *)
(***************************************************************************)
EXTENDS Integers, Sequences, FiniteSets, TLC

\* ------------------------------------------------------------------ bounds
MaxSessions == 2      \* uuids ever generated (create_session calls that get that far)
MaxHist     == 3      \* length a session's history may reach
MaxReqs     == 2      \* REST requests in flight at once in the store specifications
MaxCleanups == 2      \* invocations of cleanup()
StreamHist  == 2      \* length a history may reach in the streaming specification
OpsHist     == 2      \* length a history may reach in the operations specification

Urls    == {"A", "B"}
Keys    == {"A"}                   \* KeyPressRequest.key / the 'key' of a keypress frame
Modifiers == {"ctrl", "alt", "shift", "meta"}   \* the modifiers a request can switch on
\* the sets of modifiers the requests and frames of the model switch on
ModifierSets == {{}, {"ctrl", "shift"}, {"alt", "meta"}, {"shift", "alt"}, Modifiers}
Ids     == 1..MaxSessions          \* session ids (uuid4 values, never reused)
Ctxs    == 1..MaxSessions          \* engine handles of browsing contexts / their pages
Reqs    == 1..MaxReqs              \* REST request slots
NavReqs == {1}                     \* the REST slot of the navigation specification
NavIds  == {1}                     \* the session of the navigation specification
Conns   == {1}                     \* WebSocket connections

VARIABLES
    playwright,   \* self.playwright: 0 is None, else the handle start() returned
    browser,      \* self.browser:    0 is None, else the handle launch() returned
    sessions,     \* the keys of self.sessions, in insertion order
    session,      \* the session dicts by id (an object lives on while a handler holds it)
    uuids,        \* number of uuid4() values generated so far
    engine,       \* the engine: calls served and what is alive
    ctxState,     \* engine side of each context: none / open / closing / closed
    pageNav,      \* engine side of each page: its own history and position
    req,          \* REST request slots: position and locals of the running handler
    ws,           \* WebSocket connections: websocket_endpoint, its locals and producer
    cleanup       \* the shutdown task running cleanup()

vars == <<playwright, browser, sessions, session, uuids, engine, ctxState,
          pageNav, req, ws, cleanup>>

\* ----------------------------------------------------------------- helpers
Min(a, b) == IF a < b THEN a ELSE b
Max(a, b) == IF a > b THEN a ELSE b

Range(s) == {s[i] : i \in DOMAIN s}

\* Python's list[:n]
PySlice(h, n) ==
    IF n >= 0 THEN SubSeq(h, 1, Min(n, Len(h)))
    ELSE SubSeq(h, 1, Max(0, Len(h) + n))

\* Mutant of DelKey: the `del` is forgotten.
DelKeyForgotten(keys, k) == keys

\* `del d[k]` on the ordered keys
DelKey(keys, k) == SelectSeq(keys, LAMBDA x : x # k)

NoSession == [context |-> 0, page |-> 0, history |-> <<>>, history_index |-> -1]

IdleReq == [pc |-> "idle", op |-> "none", sid |-> 0, url |-> "", chord |-> "", ctx |-> 0,
            res |-> "none"]

IdleWs == [pc |-> "idle", sid |-> 0, session |-> 0, streaming |-> FALSE,
           prod |-> "none", cancel |-> FALSE, url |-> "", chord |-> "", sent |-> {},
           close |-> 0, outcome |-> "none"]

IdleCleanup == [pc |-> "idle", keys |-> <<>>, cur |-> 0, n |-> 0]

\* A request slot is free: nothing running in it (its last result stays readable).
Free(t) == req[t].pc \in {"idle", "done"}

\* The process is shutting down: cleanup_sessions() has been called.
ShuttingDown == cleanup.n > 0

Finish(op, res) == [IdleReq EXCEPT !.pc = "done", !.op = op, !.res = res]

\* ------------------------------------------------- BrowserSessionManager
Init ==
    /\ playwright = 0
    /\ browser = 0
    /\ sessions = <<>>
    /\ session = [i \in Ids |-> NoSession]
    /\ uuids = 0
    /\ engine = [starts |-> 0, launches |-> 0, live |-> {}, running |-> {}]
    /\ ctxState = [c \in Ctxs |-> "none"]
    /\ pageNav = [c \in Ctxs |-> [hist |-> <<>>, pos |-> 0]]
    /\ req = [t \in Reqs |-> IdleReq]
    /\ ws = [c \in Conns |-> IdleWs]
    /\ cleanup = IdleCleanup

\* get_session: self.sessions.get(session_id); 0 is None, else the dict (by id)
get_session(id) == IF id \in Range(sessions) THEN id ELSE 0

\* create_session, lines 42-46, run once initialize() has returned: the uuid is
\* drawn, then self.browser.new_context(..) is called: on None that raises
\* AttributeError, which the route turns into a 500.
create_after_initialize(br) ==
    IF br = 0
    THEN Finish("create", "500")
    ELSE [IdleReq EXCEPT !.pc = "new_context", !.op = "create", !.sid = uuids + 1]

\* Creates that have not drawn their uuid yet (still inside initialize()).
InInitialize == {t \in Reqs : req[t].pc \in {"pw_start", "launch"}}

\* POST /session: the route calls create_session, which calls initialize():
\* `if self.playwright is None` is tested, and if so start() is awaited.
create_session_begin(t) ==
    /\ Free(t) /\ ~ShuttingDown
    /\ uuids + Cardinality(InInitialize) < MaxSessions
    /\ IF playwright = 0
       THEN /\ req' = [req EXCEPT ![t] = [IdleReq EXCEPT !.pc = "pw_start", !.op = "create"]]
            /\ uuids' = uuids
       ELSE /\ req' = [req EXCEPT ![t] = create_after_initialize(browser)]
            /\ uuids' = uuids + 1
    /\ UNCHANGED <<playwright, browser, sessions, session, engine, ctxState,
                   pageNav, ws, cleanup>>

\* initialize(), line 25 resumes: self.playwright is assigned, launch() is awaited.
initialize_started(t) ==
    /\ req[t].pc = "pw_start"
    /\ engine' = [engine EXCEPT !.starts = @ + 1, !.running = @ \cup {engine.starts + 1}]
    /\ playwright' = engine.starts + 1
    /\ req' = [req EXCEPT ![t].pc = "launch"]
    /\ UNCHANGED <<browser, sessions, session, uuids, ctxState, pageNav, ws, cleanup>>

\* initialize(), line 26 resumes: self.browser is assigned; create_session goes on.
initialize_launched(t) ==
    /\ req[t].pc = "launch"
    /\ engine' = [engine EXCEPT !.launches = @ + 1, !.live = @ \cup {engine.launches + 1}]
    /\ browser' = engine.launches + 1
    /\ req' = [req EXCEPT ![t] = create_after_initialize(engine.launches + 1)]
    /\ uuids' = uuids + 1
    /\ UNCHANGED <<playwright, sessions, session, ctxState, pageNav, ws, cleanup>>

FreshCtx == CHOOSE c \in Ctxs : ctxState[c] = "none" /\ \A d \in Ctxs : ctxState[d] = "none" => c <= d

\* create_session, line 43 resumes: the engine hands out a new context; new_page() is awaited.
create_session_context(t) ==
    /\ req[t].pc = "new_context"
    /\ ctxState' = [ctxState EXCEPT ![FreshCtx] = "open"]
    /\ req' = [req EXCEPT ![t].pc = "new_page", ![t].ctx = FreshCtx]
    /\ UNCHANGED <<playwright, browser, sessions, session, uuids, engine, pageNav, ws, cleanup>>

\* Mutant of create_session_stored: the context is read from where the last
\* create left it, not from the call's own local.
create_session_stored_shared(t) ==
    /\ req[t].pc = "new_page"
    /\ sessions' = Append(sessions, req[t].sid)
    /\ session' = [session EXCEPT ![req[t].sid] =
                      LET last == CHOOSE c \in Ctxs :
                                     /\ ctxState[c] # "none"
                                     /\ \A d \in Ctxs : ctxState[d] # "none" => d <= c
                      IN [context |-> last, page |-> last,
                          history |-> <<>>, history_index |-> -1]]
    /\ req' = [req EXCEPT ![t] = Finish("create", "created")]
    /\ UNCHANGED <<playwright, browser, uuids, engine, ctxState, pageNav, ws, cleanup>>

\* create_session, line 47 resumes: the record is stored, the id returned; the
\* route looks the session up again and answers.
create_session_stored(t) ==
    /\ req[t].pc = "new_page"
    /\ sessions' = Append(sessions, req[t].sid)
    /\ session' = [session EXCEPT ![req[t].sid] =
                      [context |-> req[t].ctx, page |-> req[t].ctx,
                       history |-> <<>>, history_index |-> -1]]
    /\ req' = [req EXCEPT ![t] = Finish("create", "created")]
    /\ UNCHANGED <<playwright, browser, uuids, engine, ctxState, pageNav, ws, cleanup>>

\* The engine starts closing a context when close() is called on it.
CtxClosing(cs, c) == [cs EXCEPT ![c] = IF @ = "open" THEN "closing" ELSE @]

\* The engine's answer to context.close(): done, or refused (the context stays open).
CtxClosed(cs, c, ok) == [cs EXCEPT ![c] = IF ok THEN "closed" ELSE "open"]

\* An engine call on a context can fail only while the engine still works on it.
CanAnswer(c, ok) == ok \/ ctxState[c] = "closing"

\* DELETE /session/{id}: 404 if get_session finds nothing; else the manager's
\* close_session runs up to `await session['context'].close()`.
close_session_begin(t, id) ==
    /\ Free(t) /\ ~ShuttingDown
    /\ IF get_session(id) = 0
       THEN /\ req' = [req EXCEPT ![t] = Finish("delete", "404")]
            /\ ctxState' = ctxState
       ELSE /\ req' = [req EXCEPT ![t] = [IdleReq EXCEPT !.pc = "ctx_close", !.op = "delete",
                                                        !.sid = id, !.ctx = session[id].context]]
            /\ ctxState' = CtxClosing(ctxState, session[id].context)
    /\ UNCHANGED <<playwright, browser, sessions, session, uuids, engine, pageNav, ws, cleanup>>

\* close_session, line 66 resumes: `del self.sessions[session_id]` (KeyError if the
\* key is gone), then the route answers.  Neither the manager nor the route
\* catches anything, so an exception ends the request as an unhandled error.
close_session_closed(t, ok) ==
    /\ req[t].pc = "ctx_close"
    /\ CanAnswer(req[t].ctx, ok)
    /\ ctxState' = CtxClosed(ctxState, req[t].ctx, ok)
    /\ IF ok /\ req[t].sid \in Range(sessions)
       THEN /\ sessions' = DelKey(sessions, req[t].sid)
            /\ req' = [req EXCEPT ![t] = Finish("delete", "closed")]
       ELSE /\ sessions' = sessions
            /\ req' = [req EXCEPT ![t] = Finish("delete", IF ok THEN "KeyError" ELSE "EngineError")]
    /\ UNCHANGED <<playwright, browser, session, uuids, engine, pageNav, ws, cleanup>>

\* GET /session/{id}/status: 404, or the record is read and page.title() awaited.
get_session_status_begin(t, id) ==
    /\ Free(t) /\ ~ShuttingDown
    /\ req' = [req EXCEPT ![t] =
                 IF get_session(id) = 0 THEN Finish("status", "404")
                 ELSE [IdleReq EXCEPT !.pc = "title", !.op = "status", !.sid = id]]
    /\ UNCHANGED <<playwright, browser, sessions, session, uuids, engine, ctxState,
                   pageNav, ws, cleanup>>

get_session_status_done(t, ok) ==
    /\ req[t].pc = "title"
    /\ req' = [req EXCEPT ![t] = Finish("status", IF ok THEN "status" ELSE "EngineError")]
    /\ UNCHANGED <<playwright, browser, sessions, session, uuids, engine, ctxState,
                   pageNav, ws, cleanup>>

\* ------------------------------------------------------------- navigation
\* The engine's own history of a page: goto drops what lies after the current
\* entry and adds the url; back and forward move the position when they can.
EngineGoto(nav, url) ==
    LET h == Append(SubSeq(nav.hist, 1, nav.pos), url) IN [hist |-> h, pos |-> Len(h)]
EngineBack(nav) == [nav EXCEPT !.pos = IF @ > 1 THEN @ - 1 ELSE @]
EngineForward(nav) == [nav EXCEPT !.pos = IF @ < Len(nav.hist) THEN @ + 1 ELSE @]

\* A page operation can succeed only while the page's context is not closed.
PageAnswers(p, ok) == ~ok \/ ctxState[p] # "closed"

\* page.goto calls in flight on session id (they bound the history's growth).
GotoPending(id) ==
    Cardinality({t \in Reqs : req[t].pc = "goto" /\ req[t].sid = id})
    + Cardinality({c \in Conns : ws[c].pc = "goto" /\ ws[c].session = id})

\* Bound of the model: a navigation is taken up only while the history, and
\* the engine's own, stay within MaxHist entries.
CanNavigate(id) ==
    /\ Len(session[id].history) + GotoPending(id) < MaxHist
    /\ Len(pageNav[session[id].page].hist) + GotoPending(id) < MaxHist

\* navigate, lines 173-175: truncate to history_index + 1 entries, append, move the index
record_navigation(r, url) ==
    LET h == Append(PySlice(r.history, r.history_index + 1), url)
    IN [r EXCEPT !.history = h, !.history_index = Len(h) - 1]

\* websocket_endpoint, lines 352-353: append, move the index
ws_record_navigation(r, url) ==
    LET h == Append(r.history, url)
    IN [r EXCEPT !.history = h, !.history_index = Len(h) - 1]

\* Mutant of can_go_back: `>=` for `>`.
can_go_back_off_by_one(r) == r.history_index >= 0

\* go_back / 'back' frame: `if session['history_index'] > 0`
can_go_back(r) == r.history_index > 0

\* Mutant of can_go_forward: `<=` for `<`.
can_go_forward_off_by_one(r) == r.history_index <= Len(r.history) - 1

\* go_forward / 'forward' frame: `if session['history_index'] < len(session['history']) - 1`
can_go_forward(r) == r.history_index < Len(r.history) - 1

\* POST /{id}/navigate: 404, or page.goto(url) is awaited.
navigate_begin(t, id, url) ==
    /\ Free(t) /\ ~ShuttingDown
    /\ get_session(id) # 0 => CanNavigate(id)
    /\ req' = [req EXCEPT ![t] =
                 IF get_session(id) = 0 THEN Finish("navigate", "404")
                 ELSE [IdleReq EXCEPT !.pc = "goto", !.op = "navigate", !.sid = id, !.url = url]]
    /\ UNCHANGED <<playwright, browser, sessions, session, uuids, engine, ctxState,
                   pageNav, ws, cleanup>>

\* Mutant of navigate_done: the url is recorded whether the load succeeded or not.
navigate_done_recording(t, ok) ==
    /\ req[t].pc = "goto"
    /\ PageAnswers(session[req[t].sid].page, ok)
    /\ pageNav' = IF ok THEN [pageNav EXCEPT ![session[req[t].sid].page] = EngineGoto(@, req[t].url)]
                  ELSE pageNav
    /\ session' = [session EXCEPT ![req[t].sid] = record_navigation(@, req[t].url)]
    /\ req' = [req EXCEPT ![t] = IF ok THEN [@ EXCEPT !.pc = "nav_title"]
                                 ELSE Finish("navigate", "500")]
    /\ UNCHANGED <<playwright, browser, sessions, uuids, engine, ctxState, ws, cleanup>>

\* navigate, line 170 resumes: the history is updated and page.title() is
\* awaited for the answer; a failed load is answered with a 500 and leaves
\* the record alone.
navigate_done(t, ok) ==
    /\ req[t].pc = "goto"
    /\ PageAnswers(session[req[t].sid].page, ok)
    /\ IF ok
       THEN /\ pageNav' = [pageNav EXCEPT ![session[req[t].sid].page] = EngineGoto(@, req[t].url)]
            /\ session' = [session EXCEPT ![req[t].sid] = record_navigation(@, req[t].url)]
            /\ req' = [req EXCEPT ![t].pc = "nav_title"]
       ELSE /\ UNCHANGED <<pageNav, session>>
            /\ req' = [req EXCEPT ![t] = Finish("navigate", "500")]
    /\ UNCHANGED <<playwright, browser, sessions, uuids, engine, ctxState, ws, cleanup>>

\* navigate, line 180 resumes: the route answers; an exception of page.title()
\* is answered with a 500 like one of page.goto, the history being updated already.
navigate_titled(t, ok) ==
    /\ req[t].pc = "nav_title"
    /\ PageAnswers(session[req[t].sid].page, ok)
    /\ req' = [req EXCEPT ![t] = Finish("navigate", IF ok THEN "navigated" ELSE "500")]
    /\ UNCHANGED <<playwright, browser, sessions, session, uuids, engine, ctxState,
                   pageNav, ws, cleanup>>

\* POST /{id}/back: 404; or the index is decremented and page.go_back() awaited;
\* or no_history.
go_back_begin(t, id) ==
    /\ Free(t) /\ ~ShuttingDown
    /\ IF get_session(id) = 0
       THEN /\ req' = [req EXCEPT ![t] = Finish("back", "404")]
            /\ session' = session
       ELSE IF can_go_back(session[id])
       THEN /\ session' = [session EXCEPT ![id].history_index = @ - 1]
            /\ req' = [req EXCEPT ![t] = [IdleReq EXCEPT !.pc = "go_back", !.op = "back", !.sid = id]]
       ELSE /\ req' = [req EXCEPT ![t] = Finish("back", "no_history")]
            /\ session' = session
    /\ UNCHANGED <<playwright, browser, sessions, uuids, engine, ctxState, pageNav, ws, cleanup>>

\* go_back, line 196 resumes (an exception of go_back is not caught).
go_back_done(t, ok) ==
    /\ req[t].pc = "go_back"
    /\ PageAnswers(session[req[t].sid].page, ok)
    /\ pageNav' = IF ok THEN [pageNav EXCEPT ![session[req[t].sid].page] = EngineBack(@)]
                  ELSE pageNav
    /\ req' = [req EXCEPT ![t] = Finish("back", IF ok THEN "success" ELSE "EngineError")]
    /\ UNCHANGED <<playwright, browser, sessions, session, uuids, engine, ctxState, ws, cleanup>>

\* POST /{id}/forward: 404; or the index is incremented and page.go_forward()
\* awaited; or no_forward_history.
go_forward_begin(t, id) ==
    /\ Free(t) /\ ~ShuttingDown
    /\ IF get_session(id) = 0
       THEN /\ req' = [req EXCEPT ![t] = Finish("forward", "404")]
            /\ session' = session
       ELSE IF can_go_forward(session[id])
       THEN /\ session' = [session EXCEPT ![id].history_index = @ + 1]
            /\ req' = [req EXCEPT ![t] = [IdleReq EXCEPT !.pc = "go_forward", !.op = "forward", !.sid = id]]
       ELSE /\ req' = [req EXCEPT ![t] = Finish("forward", "no_forward_history")]
            /\ session' = session
    /\ UNCHANGED <<playwright, browser, sessions, uuids, engine, ctxState, pageNav, ws, cleanup>>

\* go_forward, line 211 resumes (an exception of go_forward is not caught).
go_forward_done(t, ok) ==
    /\ req[t].pc = "go_forward"
    /\ PageAnswers(session[req[t].sid].page, ok)
    /\ pageNav' = IF ok THEN [pageNav EXCEPT ![session[req[t].sid].page] = EngineForward(@)]
                  ELSE pageNav
    /\ req' = [req EXCEPT ![t] = Finish("forward", IF ok THEN "success" ELSE "EngineError")]
    /\ UNCHANGED <<playwright, browser, sessions, session, uuids, engine, ctxState, ws, cleanup>>

\* -------------------------------------------------------------- streaming
\* The producer task stream_screenshots: created (ready), awaiting the
\* screenshot (shot), the page's title (title), the send (send) or the sleep (sleep); done once its loop
\* has ended, cancelled once the CancelledError has been thrown into it.
Running == {"ready", "shot", "title", "send", "sleep"}
Ended   == {"done", "cancelled"}

PageOps == {"click", "type", "keypress", "scroll", "refresh"}

\* Inbound frames: the JSON objects receive_json() can return, by what the
\* dispatch reads of them ("other": a type that is missing or unknown).  A
\* client sends the modifiers of a keypress as the set of those that are true.
Frames ==
    {[type |-> "navigate", url |-> u, key |-> "", modifiers |-> {}] : u \in Urls \cup {""}}
    \cup {[type |-> k, url |-> "", key |-> "", modifiers |-> {}] :
              k \in (PageOps \ {"keypress"}) \cup {"back", "forward", "other"}}
    \cup {[type |-> "keypress", url |-> "", key |-> k, modifiers |-> ms] :
              k \in Keys, ms \in ModifierSets}

\* '+'.join(keys)
RECURSIVE JoinPlus(_)
JoinPlus(keys) ==
    IF keys = <<>> THEN ""
    ELSE IF Len(keys) = 1 THEN keys[1]
    ELSE keys[1] \o "+" \o JoinPlus(Tail(keys))

\* keypress, lines 280-293: the names of the modifiers that are on, in the
\* order of the four `if`s, then the key; joined with '+'.
keypress_chord(key, modifiers) ==
    JoinPlus((IF "ctrl" \in modifiers THEN <<"Control">> ELSE <<>>)
             \o (IF "alt" \in modifiers THEN <<"Alt">> ELSE <<>>)
             \o (IF "shift" \in modifiers THEN <<"Shift">> ELSE <<>>)
             \o (IF "meta" \in modifiers THEN <<"Meta">> ELSE <<>>)
             \o <<key>>)

\* websocket_endpoint, lines 367-368: data.get('key', '') is pressed as it is.
ws_keypress_chord(f) == f.key

\* ---------------------------------------------------- REST page operations
\* What a page route answers once its page call has returned.
Answer(op) ==
    CASE op = "refresh"    -> "refreshed"
      [] op = "screenshot" -> "screenshot"
      [] op = "click"      -> "clicked"
      [] op = "type"       -> "typed"
      [] op = "keypress"   -> "pressed"
      [] op = "scroll"     -> "scrolled"

\* Mutant of page_route: without a session the route answers as if the page
\* call had been made.
page_route_lenient(t, id, op, chord) ==
    /\ Free(t) /\ ~ShuttingDown
    /\ req' = [req EXCEPT ![t] =
                 IF get_session(id) = 0 THEN Finish(op, Answer(op))
                 ELSE [IdleReq EXCEPT !.pc = "page_op", !.op = op, !.sid = id, !.chord = chord]]
    /\ UNCHANGED <<playwright, browser, sessions, session, uuids, engine, ctxState,
                   pageNav, ws, cleanup>>

\* The head of every page route: 404 without a session, else the page call
\* (for a keypress: of the chord) is awaited.
page_route(t, id, op, chord) ==
    /\ Free(t) /\ ~ShuttingDown
    /\ req' = [req EXCEPT ![t] =
                 IF get_session(id) = 0 THEN Finish(op, "404")
                 ELSE [IdleReq EXCEPT !.pc = "page_op", !.op = op, !.sid = id, !.chord = chord]]
    /\ UNCHANGED <<playwright, browser, sessions, session, uuids, engine, ctxState,
                   pageNav, ws, cleanup>>

\* POST /{id}/refresh: page.reload()
refresh(t, id) == page_route(t, id, "refresh", "")

\* GET /{id}/screenshot: page.screenshot(..)
get_screenshot(t, id) == page_route(t, id, "screenshot", "")

\* POST /{id}/click: page.mouse.click(..)
click(t, id) == page_route(t, id, "click", "")

\* POST /{id}/type: page.keyboard.type(..)
type_text(t, id) == page_route(t, id, "type", "")

\* POST /{id}/keypress: page.keyboard.press('+'.join(keys))
keypress(t, id, key, modifiers) == page_route(t, id, "keypress", keypress_chord(key, modifiers))

\* POST /{id}/scroll: page.mouse.wheel(..)
scroll(t, id) == page_route(t, id, "scroll", "")

\* The page call of refresh, click, type, keypress or scroll has returned: the
\* route answers; an exception of the call is caught nowhere.
page_route_done(t, ok) ==
    /\ req[t].pc = "page_op" /\ req[t].op # "screenshot"
    /\ PageAnswers(session[req[t].sid].page, ok)
    /\ req' = [req EXCEPT ![t] = Finish(req[t].op, IF ok THEN Answer(req[t].op) ELSE "EngineError")]
    /\ UNCHANGED <<playwright, browser, sessions, session, uuids, engine, ctxState,
                   pageNav, ws, cleanup>>

\* get_screenshot, line 237 resumes: page.title() is awaited; an exception is
\* answered with a 500.
get_screenshot_captured(t, ok) ==
    /\ req[t].pc = "page_op" /\ req[t].op = "screenshot"
    /\ PageAnswers(session[req[t].sid].page, ok)
    /\ req' = [req EXCEPT ![t] = IF ok THEN [@ EXCEPT !.pc = "shot_title"]
                                 ELSE Finish("screenshot", "500")]
    /\ UNCHANGED <<playwright, browser, sessions, session, uuids, engine, ctxState,
                   pageNav, ws, cleanup>>

\* get_screenshot, line 243 resumes.
get_screenshot_done(t, ok) ==
    /\ req[t].pc = "shot_title"
    /\ PageAnswers(session[req[t].sid].page, ok)
    /\ req' = [req EXCEPT ![t] = Finish("screenshot", IF ok THEN Answer("screenshot") ELSE "500")]
    /\ UNCHANGED <<playwright, browser, sessions, session, uuids, engine, ctxState,
                   pageNav, ws, cleanup>>

\* websocket_endpoint's finally: the flag is cleared, the producer is cancelled
\* and awaited; awaiting a task that has ended does not suspend.
teardown(w, outcome) ==
    [w EXCEPT !.streaming = FALSE,
              !.cancel = (w.prod \in Running),
              !.pc = IF w.prod \in Running THEN "join" ELSE "returned",
              !.outcome = outcome,
              !.url = "",
              !.chord = ""]

\* A client opens /ws/{id}: websocket.accept() is awaited.
websocket_connect(c, id) ==
    /\ ws[c].pc \in {"idle", "returned"} /\ ~ShuttingDown
    /\ ws' = [ws EXCEPT ![c] = [IdleWs EXCEPT !.pc = "accept", !.sid = id]]
    /\ UNCHANGED <<playwright, browser, sessions, session, uuids, engine, ctxState,
                   pageNav, req, cleanup>>

\* Mutant of websocket_accepted: the `if not session` return is missing.
websocket_accepted_unchecked(c) ==
    /\ ws[c].pc = "accept"
    /\ ws' = [ws EXCEPT ![c] = [@ EXCEPT !.pc = "recv", !.session = get_session(ws[c].sid),
                                         !.streaming = TRUE, !.prod = "ready"]]
    /\ UNCHANGED <<playwright, browser, sessions, session, uuids, engine, ctxState,
                   pageNav, req, cleanup>>

\* Line 311 resumes: without a session websocket.close(code=4004) is awaited;
\* else the producer task is created and the consumer awaits its first frame.
websocket_accepted(c) ==
    /\ ws[c].pc = "accept"
    /\ ws' = [ws EXCEPT ![c] =
                IF get_session(ws[c].sid) = 0
                THEN [@ EXCEPT !.pc = "close", !.close = 4004]
                ELSE [@ EXCEPT !.pc = "recv", !.session = get_session(ws[c].sid),
                               !.streaming = TRUE, !.prod = "ready"]]
    /\ UNCHANGED <<playwright, browser, sessions, session, uuids, engine, ctxState,
                   pageNav, req, cleanup>>

\* Line 315 resumes: the handler returns; an exception of close() leaves it
\* (the call stands before the try).
websocket_rejected(c, ok) ==
    /\ ws[c].pc = "close"
    /\ ws' = [ws EXCEPT ![c].pc = "returned", ![c].outcome = IF ok THEN "rejected" ELSE "error"]
    /\ UNCHANGED <<playwright, browser, sessions, session, uuids, engine, ctxState,
                   pageNav, req, cleanup>>

\* Line 344 resumes with a frame: the dispatch runs up to its await, or, for a
\* frame it has nothing to do for, back to receive_json().
websocket_receive(c, f) ==
    /\ ws[c].pc = "recv"
    /\ (f.type = "navigate" /\ f.url # "") => CanNavigate(ws[c].session)
    /\ LET id == ws[c].session
           r  == session[id]
           w  == ws[c]
       IN CASE f.type = "navigate" ->
                 /\ ws' = [ws EXCEPT ![c] = IF f.url # ""
                                            THEN [w EXCEPT !.pc = "goto", !.url = f.url]
                                            ELSE w]
                 /\ session' = session
            [] f.type = "back" ->
                 /\ ws' = [ws EXCEPT ![c] = IF can_go_back(r) THEN [w EXCEPT !.pc = "go_back"] ELSE w]
                 /\ session' = IF can_go_back(r)
                               THEN [session EXCEPT ![id].history_index = @ - 1]
                               ELSE session
            [] f.type = "forward" ->
                 /\ ws' = [ws EXCEPT ![c] = IF can_go_forward(r) THEN [w EXCEPT !.pc = "go_forward"] ELSE w]
                 /\ session' = IF can_go_forward(r)
                               THEN [session EXCEPT ![id].history_index = @ + 1]
                               ELSE session
            [] f.type = "keypress" ->
                 /\ ws' = [ws EXCEPT ![c] = [w EXCEPT !.pc = "page_op",
                                                      !.chord = ws_keypress_chord(f)]]
                 /\ session' = session
            [] f.type \in PageOps \ {"keypress"} ->
                 /\ ws' = [ws EXCEPT ![c] = [w EXCEPT !.pc = "page_op"]]
                 /\ session' = session
            [] OTHER ->
                 /\ ws' = [ws EXCEPT ![c] = w]
                 /\ session' = session
    /\ UNCHANGED <<playwright, browser, sessions, uuids, engine, ctxState, pageNav, req, cleanup>>

\* Mutant of websocket_disconnect: the handler closes the session when the client goes.
websocket_disconnect_closing(c) ==
    /\ ws[c].pc = "recv"
    /\ ws' = [ws EXCEPT ![c] = teardown(@, "disconnect")]
    /\ sessions' = DelKey(sessions, ws[c].session)
    /\ UNCHANGED <<playwright, browser, session, uuids, engine, ctxState,
                   pageNav, req, cleanup>>

\* Line 344 raises WebSocketDisconnect: the client has gone.
websocket_disconnect(c) ==
    /\ ws[c].pc = "recv"
    /\ ws' = [ws EXCEPT ![c] = teardown(@, "disconnect")]
    /\ UNCHANGED <<playwright, browser, sessions, session, uuids, engine, ctxState,
                   pageNav, req, cleanup>>

\* Line 344 or 345 raises: the frame is not JSON, or not a JSON object.
websocket_receive_invalid(c) ==
    /\ ws[c].pc = "recv"
    /\ ws' = [ws EXCEPT ![c] = teardown(@, "error")]
    /\ UNCHANGED <<playwright, browser, sessions, session, uuids, engine, ctxState,
                   pageNav, req, cleanup>>

\* Mutant of websocket_goto_done: the exception of page.goto is not caught.
websocket_goto_done_uncaught(c, ok) ==
    /\ ws[c].pc = "goto"
    /\ PageAnswers(session[ws[c].session].page, ok)
    /\ IF ok
       THEN /\ pageNav' = [pageNav EXCEPT ![session[ws[c].session].page] = EngineGoto(@, ws[c].url)]
            /\ session' = [session EXCEPT ![ws[c].session] = ws_record_navigation(@, ws[c].url)]
            /\ ws' = [ws EXCEPT ![c].pc = "recv", ![c].url = ""]
       ELSE /\ UNCHANGED <<pageNav, session>>
            /\ ws' = [ws EXCEPT ![c] = teardown(@, "error")]
    /\ UNCHANGED <<playwright, browser, sessions, uuids, engine, ctxState, req, cleanup>>

\* Line 351 resumes: the url is appended and the index moved; a failed load is
\* reported with an error frame, whose send is awaited.
websocket_goto_done(c, ok) ==
    /\ ws[c].pc = "goto"
    /\ PageAnswers(session[ws[c].session].page, ok)
    /\ IF ok
       THEN /\ pageNav' = [pageNav EXCEPT ![session[ws[c].session].page] = EngineGoto(@, ws[c].url)]
            /\ session' = [session EXCEPT ![ws[c].session] = ws_record_navigation(@, ws[c].url)]
            /\ ws' = [ws EXCEPT ![c].pc = "recv", ![c].url = ""]
       ELSE /\ UNCHANGED <<pageNav, session>>
            /\ ws' = [ws EXCEPT ![c].pc = "send_error", ![c].url = ""]
    /\ UNCHANGED <<playwright, browser, sessions, uuids, engine, ctxState, req, cleanup>>

\* What the send of the error frame comes to: the frame is out ("sent"); or
\* the client is gone and send_json raises WebSocketDisconnect ("disconnect"),
\* which line 388 catches; or it raises something else ("error"), which
\* nothing catches.
SendResults == {"sent", "disconnect", "error"}

\* Line 355 resumes: the error frame is out and the loop goes on, or the send
\* raised and the finally block runs.
websocket_error_sent(c, result) ==
    /\ ws[c].pc = "send_error"
    /\ ws' = [ws EXCEPT ![c] = IF result = "sent"
                               THEN [@ EXCEPT !.pc = "recv", !.sent = @ \cup {"error"}]
                               ELSE teardown(@, result)]
    /\ UNCHANGED <<playwright, browser, sessions, session, uuids, engine, ctxState,
                   pageNav, req, cleanup>>

\* Lines 360-386 resume: the page operation of a click, type, keypress, scroll,
\* back, forward or refresh frame has ended; its exception is caught nowhere.
websocket_op_done(c, ok) ==
    /\ ws[c].pc \in {"go_back", "go_forward", "page_op"}
    /\ PageAnswers(session[ws[c].session].page, ok)
    /\ pageNav' = IF ~ok \/ ws[c].pc = "page_op" THEN pageNav
                  ELSE [pageNav EXCEPT ![session[ws[c].session].page] =
                           IF ws[c].pc = "go_back" THEN EngineBack(@) ELSE EngineForward(@)]
    /\ ws' = [ws EXCEPT ![c] = IF ok THEN [@ EXCEPT !.pc = "recv", !.chord = ""]
                               ELSE teardown(@, "error")]
    /\ UNCHANGED <<playwright, browser, sessions, session, uuids, engine, ctxState, req, cleanup>>

\* stream_screenshots, `while streaming:` at its first run or after the sleep:
\* page.screenshot() is awaited.
stream_screenshots_loop(c) ==
    /\ ws[c].prod \in {"ready", "sleep"} /\ ~ws[c].cancel
    /\ ws' = [ws EXCEPT ![c].prod = IF ws[c].streaming THEN "shot" ELSE "done"]
    /\ UNCHANGED <<playwright, browser, sessions, session, uuids, engine, ctxState,
                   pageNav, req, cleanup>>

\* Mutant of stream_screenshots_captured: the failure is reported to the client.
stream_screenshots_captured_reporting(c, ok) ==
    /\ ws[c].prod = "shot" /\ ~ws[c].cancel
    /\ PageAnswers(session[ws[c].session].page, ok)
    /\ ws' = [ws EXCEPT ![c].prod = IF ok THEN "title" ELSE "done",
                        ![c].sent = IF ok THEN @ ELSE @ \cup {"error"}]
    /\ UNCHANGED <<playwright, browser, sessions, session, uuids, engine, ctxState,
                   pageNav, req, cleanup>>

\* Line 325 resumes: the frame is being built, page.title() is awaited for it;
\* an exception is logged and breaks the loop.
stream_screenshots_captured(c, ok) ==
    /\ ws[c].prod = "shot" /\ ~ws[c].cancel
    /\ PageAnswers(session[ws[c].session].page, ok)
    /\ ws' = [ws EXCEPT ![c].prod = IF ok THEN "title" ELSE "done"]
    /\ UNCHANGED <<playwright, browser, sessions, session, uuids, engine, ctxState,
                   pageNav, req, cleanup>>

\* Line 332 resumes: the frame is complete and send_json awaited; an exception
\* breaks the loop.
stream_screenshots_titled(c, ok) ==
    /\ ws[c].prod = "title" /\ ~ws[c].cancel
    /\ PageAnswers(session[ws[c].session].page, ok)
    /\ ws' = [ws EXCEPT ![c].prod = IF ok THEN "send" ELSE "done"]
    /\ UNCHANGED <<playwright, browser, sessions, session, uuids, engine, ctxState,
                   pageNav, req, cleanup>>

\* Line 328 resumes: the frame is out and the sleep awaited; an exception breaks the loop.
stream_screenshots_sent(c, ok) ==
    /\ ws[c].prod = "send" /\ ~ws[c].cancel
    /\ ws' = [ws EXCEPT ![c].prod = IF ok THEN "sleep" ELSE "done",
                        ![c].sent = IF ok THEN @ \cup {"screenshot"} ELSE @]
    /\ UNCHANGED <<playwright, browser, sessions, session, uuids, engine, ctxState,
                   pageNav, req, cleanup>>

\* stream_task.cancel() takes effect: CancelledError is thrown into the producer
\* at its await (or before its first run); `except Exception` does not catch it.
stream_screenshots_cancelled(c) ==
    /\ ws[c].cancel /\ ws[c].prod \in Running
    /\ ws' = [ws EXCEPT ![c].prod = "cancelled", ![c].cancel = FALSE]
    /\ UNCHANGED <<playwright, browser, sessions, session, uuids, engine, ctxState,
                   pageNav, req, cleanup>>

\* Mutant of websocket_joined: the task is cancelled but not awaited.
websocket_joined_unawaited(c) ==
    /\ ws[c].pc = "join"
    /\ ws' = [ws EXCEPT ![c].pc = "returned"]
    /\ UNCHANGED <<playwright, browser, sessions, session, uuids, engine, ctxState,
                   pageNav, req, cleanup>>

\* Line 394 resumes: the producer has ended; the handler returns.
websocket_joined(c) ==
    /\ ws[c].pc = "join" /\ ws[c].prod \in Ended
    /\ ws' = [ws EXCEPT ![c].pc = "returned"]
    /\ UNCHANGED <<playwright, browser, sessions, session, uuids, engine, ctxState,
                   pageNav, req, cleanup>>

\* ---------------------------------------------------------------- cleanup
\* No handler runs while the process shuts down: the server drains its
\* requests and connections before it runs the shutdown hook.
Quiescent ==
    /\ \A t \in Reqs : Free(t)
    /\ \A c \in Conns : ws[c].pc \in {"idle", "returned"}

\* cleanup(), the for loop from its next key on, up to its next await: keys whose
\* session is gone are skipped by close_session's `if`; after the loop
\* `if self.browser` and `if self.playwright` pick the engine calls.
cleanup_continue(keys, store, n) ==
    LET rest == SelectSeq(keys, LAMBDA k : k \in Range(store)) IN
    IF rest # <<>>
    THEN [pc |-> "ctx_close", keys |-> Tail(rest), cur |-> Head(rest), n |-> n]
    ELSE [pc |-> IF browser # 0 THEN "browser_close"
                 ELSE IF playwright # 0 THEN "pw_stop" ELSE "done",
          keys |-> <<>>, cur |-> 0, n |-> n]

\* cleanup_sessions(): cleanup() snapshots the keys and starts on the first.
cleanup_begin ==
    /\ cleanup.pc \in {"idle", "done", "raised"}
    /\ cleanup.n < MaxCleanups
    /\ Quiescent
    /\ cleanup' = cleanup_continue(sessions, sessions, cleanup.n + 1)
    /\ ctxState' = IF cleanup'.pc = "ctx_close"
                   THEN CtxClosing(ctxState, session[cleanup'.cur].context)
                   ELSE ctxState
    /\ UNCHANGED <<playwright, browser, sessions, session, uuids, engine, pageNav, req, ws>>

\* close_session, line 66 resumes inside cleanup(): the key is deleted and the
\* loop goes on; an exception leaves cleanup() at once (nothing catches it).
cleanup_session_closed(ok) ==
    /\ cleanup.pc = "ctx_close"
    /\ CanAnswer(session[cleanup.cur].context, ok)
    /\ LET closed == CtxClosed(ctxState, session[cleanup.cur].context, ok)
           store  == DelKey(sessions, cleanup.cur)
       IN IF ok /\ cleanup.cur \in Range(sessions)
          THEN /\ sessions' = store
               /\ cleanup' = cleanup_continue(cleanup.keys, store, cleanup.n)
               /\ ctxState' = IF cleanup'.pc = "ctx_close"
                              THEN CtxClosing(closed, session[cleanup'.cur].context)
                              ELSE closed
          ELSE /\ sessions' = sessions
               /\ cleanup' = [cleanup EXCEPT !.pc = "raised"]
               /\ ctxState' = closed
    /\ UNCHANGED <<playwright, browser, session, uuids, engine, pageNav, req, ws>>

\* cleanup(), line 74 resumes: the engine has closed the browser (closing a closed
\* one is a no-op of the engine).  The loop has emptied self.sessions by now.
cleanup_browser_closed ==
    /\ cleanup.pc = "browser_close"
    /\ engine' = [engine EXCEPT !.live = @ \ {browser}]
    /\ cleanup' = [cleanup EXCEPT !.pc = IF playwright # 0 THEN "pw_stop" ELSE "done"]
    /\ UNCHANGED <<playwright, browser, sessions, session, uuids, ctxState, pageNav, req, ws>>

\* cleanup(), line 76 resumes: the engine's driver has stopped.
cleanup_stopped ==
    /\ cleanup.pc = "pw_stop"
    /\ engine' = [engine EXCEPT !.running = @ \ {playwright}]
    /\ cleanup' = [cleanup EXCEPT !.pc = "done"]
    /\ UNCHANGED <<playwright, browser, sessions, session, uuids, ctxState, pageNav, req, ws>>

\* --------------------------------------------------------- specifications
\* The session store: concurrent create and delete requests, then shutdown.
StoreNext ==
    \/ \E t \in Reqs : create_session_begin(t)
    \/ \E t \in Reqs : initialize_started(t)
    \/ \E t \in Reqs : initialize_launched(t)
    \/ \E t \in Reqs : create_session_context(t)
    \/ \E t \in Reqs : create_session_stored(t)
    \/ \E t \in Reqs, id \in Ids : close_session_begin(t, id)
    \/ \E t \in Reqs, ok \in BOOLEAN : close_session_closed(t, ok)
    \/ cleanup_begin
    \/ \E ok \in BOOLEAN : cleanup_session_closed(ok)
    \/ cleanup_browser_closed
    \/ cleanup_stopped

SpecStore == Init /\ [][StoreNext]_vars

\* The same with an engine whose calls all succeed.
StoreReliableNext ==
    \/ \E t \in Reqs : create_session_begin(t)
    \/ \E t \in Reqs : initialize_started(t)
    \/ \E t \in Reqs : initialize_launched(t)
    \/ \E t \in Reqs : create_session_context(t)
    \/ \E t \in Reqs : create_session_stored(t)
    \/ \E t \in Reqs, id \in Ids : close_session_begin(t, id)
    \/ \E t \in Reqs : close_session_closed(t, TRUE)
    \/ cleanup_begin
    \/ cleanup_session_closed(TRUE)
    \/ cleanup_browser_closed
    \/ cleanup_stopped

SpecStoreReliable == Init /\ [][StoreReliableNext]_vars

\* The consumer of a streaming connection, but for its receive step.
ConsumerNext ==
    \/ \E c \in Conns, id \in Ids : websocket_connect(c, id)
    \/ \E c \in Conns : websocket_accepted(c)
    \/ \E c \in Conns, ok \in BOOLEAN : websocket_rejected(c, ok)
    \/ \E c \in Conns : websocket_disconnect(c)
    \/ \E c \in Conns : websocket_receive_invalid(c)
    \/ \E c \in Conns, ok \in BOOLEAN : websocket_goto_done(c, ok)
    \/ \E c \in Conns, r \in SendResults : websocket_error_sent(c, r)
    \/ \E c \in Conns, ok \in BOOLEAN : websocket_op_done(c, ok)
    \/ \E c \in Conns : stream_screenshots_cancelled(c)
    \/ \E c \in Conns : websocket_joined(c)

ProducerNext ==
    \/ \E c \in Conns : stream_screenshots_loop(c)
    \/ \E c \in Conns, ok \in BOOLEAN : stream_screenshots_captured(c, ok)
    \/ \E c \in Conns, ok \in BOOLEAN : stream_screenshots_titled(c, ok)
    \/ \E c \in Conns, ok \in BOOLEAN : stream_screenshots_sent(c, ok)

CreateNext ==
    \/ \E t \in NavReqs : uuids < Cardinality(NavIds) /\ create_session_begin(t)
    \/ \E t \in NavReqs : initialize_started(t)
    \/ \E t \in NavReqs : initialize_launched(t)
    \/ \E t \in NavReqs : create_session_context(t)
    \/ \E t \in NavReqs : create_session_stored(t)

DeleteNext ==
    \/ \E t \in NavReqs, id \in Ids : close_session_begin(t, id)
    \/ \E t \in NavReqs, ok \in BOOLEAN : close_session_closed(t, ok)

NavigateNext ==
    \/ \E t \in NavReqs, id \in Ids : get_session_status_begin(t, id)
    \/ \E t \in NavReqs, ok \in BOOLEAN : get_session_status_done(t, ok)
    \/ \E t \in NavReqs, id \in Ids, u \in Urls : navigate_begin(t, id, u)
    \/ \E t \in NavReqs, ok \in BOOLEAN : navigate_done(t, ok)
    \/ \E t \in NavReqs, ok \in BOOLEAN : navigate_titled(t, ok)
    \/ \E t \in NavReqs, id \in Ids : go_back_begin(t, id)
    \/ \E t \in NavReqs, ok \in BOOLEAN : go_back_done(t, ok)
    \/ \E t \in NavReqs, id \in Ids : go_forward_begin(t, id)
    \/ \E t \in NavReqs, ok \in BOOLEAN : go_forward_done(t, ok)

CleanupNext ==
    \/ cleanup_begin
    \/ \E ok \in BOOLEAN : cleanup_session_closed(ok)
    \/ cleanup_browser_closed
    \/ cleanup_stopped

\* Navigation: one REST client and the consumer of one streaming connection
\* drive the same session.  The producer only reads the page and writes the
\* socket; of its steps only its cancellation is taken here, the others, and
\* the deletion of the session, are those of SpecStream.
Next ==
    \/ CreateNext
    \/ NavigateNext
    \/ ConsumerNext
    \/ \E c \in Conns, f \in Frames : websocket_receive(c, f)

Spec == Init /\ [][Next]_vars

\* Streaming: the whole connection handler with its producer, beside a REST
\* client that creates and deletes the session, then shutdown.  Histories stay
\* within StreamHist entries.
StreamCanNavigate(c, f) ==
    (ws[c].pc = "recv" /\ f.type = "navigate" /\ f.url # "")
        => Len(session[ws[c].session].history) < StreamHist

StreamNext ==
    \/ CreateNext
    \/ DeleteNext
    \/ ConsumerNext
    \/ \E c \in Conns, f \in Frames : StreamCanNavigate(c, f) /\ websocket_receive(c, f)
    \/ ProducerNext
    \/ CleanupNext

SpecStream == Init /\ [][StreamNext]_vars

\* Navigation with an engine whose page calls all succeed: the navigate, back
\* and forward commands of one REST client and one streaming connection.
NavCommands == {"navigate", "back", "forward"}

ReliableNext ==
    \/ CreateNext
    \/ \E t \in NavReqs, id \in Ids, u \in Urls : navigate_begin(t, id, u)
    \/ \E t \in NavReqs : navigate_done(t, TRUE)
    \/ \E t \in NavReqs : navigate_titled(t, TRUE)
    \/ \E t \in NavReqs, id \in Ids : go_back_begin(t, id)
    \/ \E t \in NavReqs : go_back_done(t, TRUE)
    \/ \E t \in NavReqs, id \in Ids : go_forward_begin(t, id)
    \/ \E t \in NavReqs : go_forward_done(t, TRUE)
    \/ \E c \in Conns, id \in Ids : websocket_connect(c, id)
    \/ \E c \in Conns : websocket_accepted(c)
    \/ \E c \in Conns : websocket_rejected(c, TRUE)
    \/ \E c \in Conns, f \in Frames : f.type \in NavCommands /\ websocket_receive(c, f)
    \/ \E c \in Conns : websocket_goto_done(c, TRUE)
    \/ \E c \in Conns : websocket_op_done(c, TRUE)
    \/ \E c \in Conns : websocket_disconnect(c)
    \/ \E c \in Conns : stream_screenshots_cancelled(c)
    \/ \E c \in Conns : websocket_joined(c)

SpecReliable == Init /\ [][ReliableNext]_vars

\* The page routes of the REST client.
PageRouteNext ==
    \/ \E t \in NavReqs, id \in Ids : refresh(t, id)
    \/ \E t \in NavReqs, id \in Ids : get_screenshot(t, id)
    \/ \E t \in NavReqs, id \in Ids : click(t, id)
    \/ \E t \in NavReqs, id \in Ids : type_text(t, id)
    \/ \E t \in NavReqs, id \in Ids, k \in Keys, ms \in ModifierSets : keypress(t, id, k, ms)
    \/ \E t \in NavReqs, id \in Ids : scroll(t, id)
    \/ \E t \in NavReqs, ok \in BOOLEAN : page_route_done(t, ok)
    \/ \E t \in NavReqs, ok \in BOOLEAN : get_screenshot_captured(t, ok)
    \/ \E t \in NavReqs, ok \in BOOLEAN : get_screenshot_done(t, ok)

\* Bounds of the operations specification: histories stay within OpsHist
\* entries, and one url is navigated to.
OpsUrls == {"A"}

OpsCanNavigate(id) ==
    get_session(id) # 0 =>
        /\ Len(session[id].history) + GotoPending(id) < OpsHist
        /\ Len(pageNav[session[id].page].hist) + GotoPending(id) < OpsHist

\* Operations: every REST route and every frame of a streaming connection on
\* one session that is created and deleted meanwhile.
OpsNext ==
    \/ CreateNext
    \/ DeleteNext
    \/ \E t \in NavReqs, id \in Ids : get_session_status_begin(t, id)
    \/ \E t \in NavReqs, ok \in BOOLEAN : get_session_status_done(t, ok)
    \/ \E t \in NavReqs, id \in Ids, u \in OpsUrls : OpsCanNavigate(id) /\ navigate_begin(t, id, u)
    \/ \E t \in NavReqs, ok \in BOOLEAN : navigate_done(t, ok)
    \/ \E t \in NavReqs, ok \in BOOLEAN : navigate_titled(t, ok)
    \/ \E t \in NavReqs, id \in Ids : go_back_begin(t, id)
    \/ \E t \in NavReqs, ok \in BOOLEAN : go_back_done(t, ok)
    \/ \E t \in NavReqs, id \in Ids : go_forward_begin(t, id)
    \/ \E t \in NavReqs, ok \in BOOLEAN : go_forward_done(t, ok)
    \/ PageRouteNext
    \/ ConsumerNext
    \/ \E c \in Conns, f \in Frames :
           /\ f.url \in OpsUrls \cup {""}
           /\ (ws[c].pc = "recv" /\ f.type = "navigate" /\ f.url # "") => OpsCanNavigate(ws[c].session)
           /\ websocket_receive(c, f)

SpecOps == Init /\ [][OpsNext]_vars

\* The event loop runs every task that can run: a cancelled producer gets its
\* CancelledError, and a handler whose awaited task has ended is resumed.
FairSpecStream ==
    /\ SpecStream
    /\ WF_vars(\E c \in Conns : stream_screenshots_cancelled(c))
    /\ WF_vars(\E c \in Conns : websocket_joined(c))

\* ------------------------------------------------------------------ claims

\* C1: for every session, in every reachable state under any interleaving of
\* navigate, back and forward commands through the REST routes and WebSocket
\* frames (failing page operations included),
\* -1 <= history_index <= len(history) - 1.
HistoryIndexInRange ==
    \A id \in Ids :
        /\ -1 <= session[id].history_index
        /\ session[id].history_index <= Len(session[id].history) - 1

\* C1 witness: the index stands on the first of several entries after a REST
\* back whose page operation failed, while a forward frame is in flight.
HistoryIndexInRangeWitness ==
    \E id \in Ids, c \in Conns, t \in NavReqs :
        /\ Len(session[id].history) >= 3
        /\ session[id].history_index = 1
        /\ req[t].op = "back" /\ req[t].res = "EngineError"
        /\ ws[c].pc = "go_forward" /\ ws[c].session = id

\* What recordNavigation(url) makes of a record: the entries after the index
\* are gone, url is the last entry, the index is on it.
Recorded(old, new, url) ==
    /\ new.history = Append(SubSeq(old.history, 1, old.history_index + 1), url)
    /\ new.history_index = Len(new.history) - 1

\* C2 (as claimed): every successful navigate, through the REST route or a
\* 'navigate' frame, discards the entries after history_index, appends the
\* url and sets history_index to the new last index.
NavigateTruncatesForward ==
    [][/\ \A t \in NavReqs : navigate_done(t, TRUE)
            => Recorded(session[req[t].sid], session'[req[t].sid], req[t].url)
       /\ \A c \in Conns : websocket_goto_done(c, TRUE)
            => Recorded(session[ws[c].session], session'[ws[c].session], ws[c].url)]_vars

\* C3 (as claimed): get_session never returns a record whose context is
\* closed or being closed.
NoHalfClosedSession ==
    \A id \in Ids :
        get_session(id) # 0 => ctxState[session[get_session(id)].context] = "open"

\* C4 (as claimed): the engine is started and the browser launched at most
\* once, whatever the interleaving of create_session calls.
LaunchedAtMostOnce == engine.starts <= 1 /\ engine.launches <= 1

\* C5 (as claimed): every delete request ends with {status: closed} or with a
\* 404, never in an unhandled error.
DeleteEndsClosedOr404 ==
    \A t \in Reqs :
        (req[t].pc = "done" /\ req[t].op = "delete") => req[t].res \in {"closed", "404"}

\* The engine is down (or was never started) and no session is stored.
ShutDown ==
    /\ sessions = <<>>
    /\ browser \notin engine.live
    /\ playwright \notin engine.running

CleanupStep ==
    \/ cleanup_begin
    \/ \E ok \in BOOLEAN : cleanup_session_closed(ok)
    \/ cleanup_browser_closed
    \/ cleanup_stopped

\* C6: once cleanup() has completed no session is retrievable; and a
\* cleanup() that runs when all is shut down already (a second time, or with
\* an engine that was never started) raises nothing and changes nothing.
CleanupIdempotent ==
    /\ [](cleanup.pc = "done" => (ShutDown /\ \A id \in Ids : get_session(id) = 0))
    /\ [][(ShutDown /\ CleanupStep)
            => /\ cleanup'.pc # "raised"
               /\ UNCHANGED <<playwright, browser, sessions, session, uuids, engine,
                              ctxState, pageNav, req, ws>>]_vars

\* C6 witness: the second cleanup() has completed after sessions had been
\* created and the engine started.
CleanupIdempotentWitness ==
    /\ cleanup.n = 2 /\ cleanup.pc = "done"
    /\ uuids = MaxSessions /\ browser # 0

\* C7 (as claimed): when closing one session's context fails, cleanup() has
\* still closed every other session's context and shut the engine down by
\* the time it ends.
CleanupSurvivesFailure ==
    cleanup.pc = "raised" =>
        /\ \A id \in Range(sessions) \ {cleanup.cur} :
               ctxState[session[id].context] = "closed"
        /\ browser \notin engine.live

\* The handler of w has closed the socket with 4004 and is returning, or has
\* returned, having done nothing else.
Rejected(w) ==
    /\ w.pc \in {"close", "returned"} /\ w.close = 4004
    /\ w.sent = {} /\ w.prod = "none" /\ w.session = 0 /\ ~w.streaming

\* C8: a connection whose session id is not in the store when the handler
\* looks it up is closed with code 4004: no screenshot or error frame is
\* sent, no producer task is created, no inbound frame is processed.
RejectedBeforeAnyFrame ==
    /\ [][\A c \in Conns :
            /\ (ws[c].pc = "accept" /\ ws'[c].pc # "accept"
                    /\ ws[c].sid \notin Range(sessions)) => Rejected(ws'[c])
            /\ (ws[c].pc = "close" /\ ws'[c] # ws[c])
                    => (ws'[c].pc = "returned" /\ Rejected(ws'[c]))
            /\ (\E f \in Frames : websocket_receive(c, f)) => ws[c].session # 0]_vars
    /\ [](\A c \in Conns : (ws[c].close = 4004 \/ ws[c].outcome = "rejected")
                              => Rejected(ws[c]))

\* C8 witness: a connection to a session that had been created and deleted
\* has been rejected.
RejectedBeforeAnyFrameWitness ==
    \E c \in Conns :
        /\ Rejected(ws[c]) /\ ws[c].pc = "returned" /\ ws[c].outcome = "rejected"
        /\ ws[c].sid \in 1..uuids
        /\ ws[c].sid \notin Range(sessions)

\* C9: however the consumer loop ends, the producer has ended when the
\* handler returns, takes no step afterwards, and the handler does return.
ProducerEndsBeforeReturn ==
    /\ [](\A c \in Conns : ws[c].pc = "returned" => ws[c].prod \in Ended \cup {"none"})
    /\ [][\A c \in Conns : (ws[c].pc = "returned" /\ ws'[c].pc = "returned")
            => (ws'[c].prod = ws[c].prod /\ ws'[c].sent = ws[c].sent)]_vars
    /\ \A c \in Conns : (ws[c].pc = "join") ~> (ws[c].pc = "returned")

\* C9 witness: a dispatch raised while the producer was between two frames;
\* the producer was cancelled and the handler has returned.
ProducerEndsBeforeReturnWitness ==
    \E c \in Conns :
        /\ ws[c].pc = "returned" /\ ws[c].outcome = "error"
        /\ ws[c].prod = "cancelled" /\ "screenshot" \in ws[c].sent

StreamStep ==
    \/ ConsumerNext
    \/ ProducerNext
    \/ \E c \in Conns, f \in Frames : websocket_receive(c, f)

\* C10: no step of a streaming connection (opening, running, closing) removes
\* a session from the store or closes a context; a session leaves the store
\* only in the delete route's or cleanup()'s close_session.
StreamKeepsSessions ==
    [][/\ StreamStep => UNCHANGED <<sessions, ctxState>>
       /\ (\E id \in Range(sessions) : id \notin Range(sessions'))
            => \/ \E t \in NavReqs, ok \in BOOLEAN : close_session_closed(t, ok)
               \/ \E ok \in BOOLEAN : cleanup_session_closed(ok)]_vars

\* C10 witness: a connection has streamed and closed, and its session is
\* still stored with its context open.
StreamKeepsSessionsWitness ==
    \E c \in Conns :
        /\ ws[c].pc = "returned" /\ "screenshot" \in ws[c].sent
        /\ get_session(ws[c].session) # 0
        /\ ctxState[session[ws[c].session].context] = "open"

\* The chord of a key and the modifiers that are on: their names in the order
\* Control, Alt, Shift, Meta, then the key, joined by '+'.
ModifierOrder == <<"ctrl", "alt", "shift", "meta">>
ModifierName == [ctrl |-> "Control", alt |-> "Alt", shift |-> "Shift", meta |-> "Meta"]
Chord(key, ms) ==
    LET on == SelectSeq(ModifierOrder, LAMBDA x : x \in ms)
    IN JoinPlus([i \in 1..Len(on) |-> ModifierName[on[i]]] \o <<key>>)

\* C11 (as claimed): a keypress, through the REST route or a 'keypress' frame,
\* presses the one chord of its enabled modifiers and its key, e.g.
\* Control+Shift+A for {ctrl, shift} and A.
KeypressDispatchesChord ==
    [][/\ \A t \in NavReqs, id \in Ids, k \in Keys, ms \in ModifierSets :
            (keypress(t, id, k, ms) /\ get_session(id) # 0) => req'[t].chord = Chord(k, ms)
       /\ \A c \in Conns, f \in Frames :
            (f.type = "keypress" /\ websocket_receive(c, f))
                => ws'[c].chord = Chord(f.key, f.modifiers)]_vars

\* C12: concurrent create_session calls that succeed store records under
\* distinct ids, each with the context and page the engine made for that
\* call, history = [] and history_index = -1; no two stored records share a
\* context or page, and a create leaves every other record as it was.
CreatesAreIndependent ==
    /\ [](\A i, j \in Range(sessions) :
             i # j => /\ session[i].context # session[j].context
                      /\ session[i].page # session[j].page)
    /\ [](\A t, u \in Reqs :
             (t # u /\ req[t].sid # 0 /\ req[t].op = "create" /\ req[u].op = "create")
                 => req[t].sid # req[u].sid)
    /\ [][\A t \in Reqs :
             (req[t].op = "create" /\ req'[t].res = "created" /\ req[t].res # "created")
                 => /\ req[t].sid \notin Range(sessions)
                    /\ sessions' = Append(sessions, req[t].sid)
                    /\ session'[req[t].sid] =
                           [context |-> req[t].ctx, page |-> req[t].ctx,
                            history |-> <<>>, history_index |-> -1]
                    /\ \A c \in Range(sessions) : session[c].context # req[t].ctx
                    /\ \A c \in Ids \ {req[t].sid} : session'[c] = session[c]]_vars

\* C12 witness: two creates overlapped (the one that drew its id second has
\* stored its record first) and both have succeeded.
CreatesAreIndependentWitness ==
    /\ sessions = <<2, 1>>
    /\ \A t \in Reqs : req[t].pc = "done" /\ req[t].op = "create" /\ req[t].res = "created"

\* A REST operation on session id is taken up in slot t.
RestCall(t, id) ==
    \/ close_session_begin(t, id)
    \/ get_session_status_begin(t, id)
    \/ \E u \in Urls : navigate_begin(t, id, u)
    \/ go_back_begin(t, id)
    \/ go_forward_begin(t, id)
    \/ refresh(t, id)
    \/ get_screenshot(t, id)
    \/ click(t, id)
    \/ type_text(t, id)
    \/ \E k \in Keys, ms \in ModifierSets : keypress(t, id, k, ms)
    \/ scroll(t, id)

\* C13: every REST operation (delete, status, navigate, back, forward,
\* refresh, screenshot, click, type, keypress, scroll) on an id that is not
\* in the store answers 404 at once: no page operation is awaited, the store,
\* the records and the engine are left as they were.
UnknownSessionIs404 ==
    [][\A t \in NavReqs, id \in Ids :
          (id \notin Range(sessions) /\ req'[t] # req[t] /\ RestCall(t, id))
              => /\ req'[t].pc = "done" /\ req'[t].res = "404"
                 /\ UNCHANGED <<sessions, session, pageNav, ctxState, engine, ws>>]_vars

\* C13 witness: a refresh for a session that had navigated and was then
\* deleted has been answered with 404.
UnknownSessionIs404Witness ==
    \E t \in NavReqs :
        /\ req[t].pc = "done" /\ req[t].op = "refresh" /\ req[t].res = "404"
        /\ uuids = 1 /\ sessions = <<>> /\ session[1].history # <<>>

\* What a back (by = -1) or forward (by = 1) command does to the record of
\* session id: nothing when there is nowhere to go, else the index moves by one.
Moved(id, nowhere, by) ==
    IF nowhere
    THEN UNCHANGED <<session, pageNav>>
    ELSE /\ session'[id].history_index = session[id].history_index + by
         /\ session'[id].history = session[id].history

NoBack(id) == session[id].history_index <= 0
NoForward(id) == session[id].history_index >= Len(session[id].history) - 1

\* C14: back answers 'no_history' exactly when history_index <= 0, forward
\* 'no_forward_history' exactly when history_index >= len(history) - 1; then
\* no page back/forward is awaited and history and history_index stay as
\* they are; otherwise history_index moves by exactly -1 (back) or +1
\* (forward) and history stays as it is.  The same for the frames, which
\* answer nothing.
BackForwardStatus ==
    [][/\ \A t \in NavReqs, id \in Ids :
            (req'[t] # req[t] /\ id \in Range(sessions) /\ go_back_begin(t, id))
                => /\ (req'[t].res = "no_history") <=> NoBack(id)
                   /\ (req'[t].pc = "go_back") <=> ~NoBack(id)
                   /\ Moved(id, NoBack(id), -1)
       /\ \A t \in NavReqs, id \in Ids :
            (req'[t] # req[t] /\ id \in Range(sessions) /\ go_forward_begin(t, id))
                => /\ (req'[t].res = "no_forward_history") <=> NoForward(id)
                   /\ (req'[t].pc = "go_forward") <=> ~NoForward(id)
                   /\ Moved(id, NoForward(id), 1)
       /\ \A c \in Conns :
            (ws[c].pc = "recv" /\ \E f \in Frames : f.type = "back" /\ websocket_receive(c, f))
                => /\ (ws'[c].pc = "go_back") <=> ~NoBack(ws[c].session)
                   /\ Moved(ws[c].session, NoBack(ws[c].session), -1)
       /\ \A c \in Conns :
            (ws[c].pc = "recv" /\ \E f \in Frames : f.type = "forward" /\ websocket_receive(c, f))
                => /\ (ws'[c].pc = "go_forward") <=> ~NoForward(ws[c].session)
                   /\ Moved(ws[c].session, NoForward(ws[c].session), 1)]_vars

\* C14 witness: a back on a session with two entries, standing on the first,
\* has been answered 'no_history'.
BackForwardStatusWitness ==
    \E t \in NavReqs, id \in Range(sessions) :
        /\ req[t].pc = "done" /\ req[t].op = "back" /\ req[t].res = "no_history"
        /\ Len(session[id].history) = 2 /\ session[id].history_index = 0

\* The consumer of connection c is in its loop after the step, the producer
\* not cancelled, the socket not closed.
StillStreaming(c) ==
    /\ ws'[c].streaming /\ ~ws'[c].cancel
    /\ ws'[c].close = 0 /\ ws'[c].outcome = "none"
    /\ ws'[c].prod = ws[c].prod

\* C15: when the load of a 'navigate' frame fails, an {type: 'error'} frame
\* is sent to the client, the handler stays in its loop and awaits the next
\* frame once the error frame is out; the failure does not end the connection.
NavigateFailureIsReported ==
    [][\A c \in Conns :
          /\ websocket_goto_done(c, FALSE)
                => /\ ws'[c].pc = "send_error" /\ StillStreaming(c)
                   /\ UNCHANGED <<session, pageNav>>
          /\ websocket_error_sent(c, "sent")
                => /\ ws'[c].pc = "recv" /\ StillStreaming(c)
                   /\ ws'[c].sent = ws[c].sent \cup {"error"}
          /\ (ws[c].pc = "goto" /\ ws'[c].pc # "goto") => StillStreaming(c)]_vars

\* C15 witness: after the error frame of a failed navigate the consumer has
\* taken up the next frame, on a session whose context is open.
NavigateFailureIsReportedWitness ==
    \E c \in Conns :
        /\ ws[c].pc = "page_op" /\ "error" \in ws[c].sent /\ ws[c].streaming
        /\ ctxState[session[ws[c].session].context] = "open"
        /\ session[ws[c].session].history = <<>>

\* C16 (as claimed): a frame whose command type is missing, unknown or
\* malformed causes no page operation and no history change, and the handler
\* stays in its loop awaiting the next frame.
BadFramesAreIgnored ==
    [][\A c \in Conns :
          (ws[c].pc = "recv"
             /\ \/ websocket_receive_invalid(c)
                \/ \E f \in Frames : f.type = "other" /\ websocket_receive(c, f))
              => /\ ws'[c].pc = "recv" /\ ws'[c].streaming /\ ws'[c].outcome = "none"
                 /\ UNCHANGED <<session, pageNav>>]_vars

\* No navigate, back or forward of session id awaits its page call.
NoNavigationInFlight(id) ==
    /\ \A t \in Reqs : req[t].sid = id => req[t].pc \notin {"goto", "nav_title", "go_back", "go_forward"}
    /\ \A c \in Conns : ws[c].session = id => ws[c].pc \notin {"goto", "go_back", "go_forward"}

\* C17 (as claimed): with no navigation in flight, and after successful
\* navigate, back and forward commands only, history[history_index] is the
\* url of the entry the page's own history stands on; history_index is -1
\* only if nothing has been recorded.
TrackerFollowsEngine ==
    \A id \in Range(sessions) :
        NoNavigationInFlight(id) =>
            LET r == session[id]
                nav == pageNav[r.page]
            IN /\ r.history_index >= 0 =>
                     /\ nav.pos > 0
                     /\ r.history[r.history_index + 1] = nav.hist[nav.pos]
               /\ r.history_index = -1 => r.history = <<>>

\* C18 (as claimed): every create_session call that gets past initialize()
\* finds the browser launched: none asks for a browsing context, or fails for
\* want of a browser, while self.browser is still None.
ContextOnlyAfterLaunch ==
    [][\A t \in Reqs :
          (req'[t] # req[t] /\ req'[t].op = "create" /\ req'[t].pc \notin {"pw_start", "launch"})
              => (browser' # 0 /\ req'[t].res # "500")]_vars

\* The consumer of connection c can take up an inbound command.
ConsumerReceives(c) ==
    ENABLED (\E f \in Frames : f.type = "click" /\ websocket_receive(c, f))

\* C19: when the capture, the title or the send fails in the producer, its loop ends:
\* no screenshot frame is sent afterwards and nothing is sent to the client
\* about the failure; the consumer is left where it was and goes on
\* receiving and dispatching commands.
ProducerFailureIsSilent ==
    /\ [][\A c \in Conns :
            /\ (\/ stream_screenshots_captured(c, FALSE)
                \/ stream_screenshots_titled(c, FALSE)
                \/ stream_screenshots_sent(c, FALSE))
                  => /\ ws'[c].prod = "done"
                     /\ ws'[c] = [ws[c] EXCEPT !.prod = "done"]
            /\ (ws[c].prod = "done" /\ ws'[c].pc # "accept")
                  => /\ ws'[c].prod = "done"
                     /\ ws'[c].sent \ ws[c].sent \subseteq {"error"}
                     /\ ws'[c].sent # ws[c].sent => ws[c].pc = "send_error"]_vars
    /\ [](\A c \in Conns :
             (ws[c].prod = "done" /\ ws[c].pc = "recv") => ConsumerReceives(c))

\* C19 witness: the producer has streamed and then failed, and the consumer
\* has taken up a command since.
ProducerFailureIsSilentWitness ==
    \E c \in Conns :
        /\ ws[c].prod = "done" /\ ws[c].streaming /\ "screenshot" \in ws[c].sent
        /\ ws[c].pc = "page_op" /\ "error" \notin ws[c].sent

\* The step is a navigate whose load succeeded, or a back or forward whose
\* predicate holds, on session id.
NavigationStep(id) ==
    \/ \E t \in NavReqs : req[t].sid = id /\ navigate_done(t, TRUE)
    \/ \E c \in Conns : ws[c].session = id /\ websocket_goto_done(c, TRUE)
    \/ \E t \in NavReqs : session[id].history_index > 0 /\ go_back_begin(t, id)
    \/ \E t \in NavReqs :
          session[id].history_index < Len(session[id].history) - 1 /\ go_forward_begin(t, id)
    \/ \E c \in Conns, f \in Frames :
          /\ ws[c].session = id /\ websocket_receive(c, f)
          /\ \/ f.type = "back" /\ session[id].history_index > 0
             \/ f.type = "forward" /\ session[id].history_index < Len(session[id].history) - 1

\* The routes that only read the page or act on it.
ReadOnlyOps == {"status", "refresh", "screenshot", "click", "type", "keypress", "scroll"}

\* C20: history and history_index of a stored session change only in a
\* navigate whose load succeeded or a back/forward whose predicate holds;
\* status, refresh, screenshot, click, type, keypress and scroll, by route or
\* by frame, and a navigate whose load failed, leave both as they are.
HistoryChangesOnlyByNavigation ==
    [][/\ \A id \in Range(sessions) :
            (session'[id] # session[id]) => NavigationStep(id)
       /\ \A t \in NavReqs :
            (req'[t] # req[t] /\ req'[t].op \in ReadOnlyOps) => session' = session
       /\ \A c \in Conns :
            (ws'[c] # ws[c] /\ (ws[c].pc = "page_op" \/ ws'[c].pc = "page_op"))
                => session' = session
       /\ \A t \in NavReqs : (req[t].pc = "goto" /\ req'[t].res = "500") => session' = session
       /\ \A c \in Conns : (ws[c].pc = "goto" /\ ws'[c].pc = "send_error") => session' = session]_vars

\* C20 witness: a scroll has been answered and a frame's page operation is
\* awaited on a session that stands on the first of its two entries.
HistoryChangesOnlyByNavigationWitness ==
    \E t \in NavReqs, c \in Conns, id \in Range(sessions) :
        /\ req[t].pc = "done" /\ req[t].op = "scroll" /\ req[t].res = "scrolled"
        /\ ws[c].pc = "page_op" /\ ws[c].session = id
        /\ Len(session[id].history) = 2 /\ session[id].history_index = 0

====
